---- MODULE Spec2Model ----
(***************************************************************************)
(* HarmonicWriter (src/src/writer.rs): a writer that appends MergerEvents  *)
(* to a container file and rolls over to a new file, with the next run     *)
(* index, once the on-disk size of the current file reaches harmonic_size. *)
(*                                                                         *)
(* Every call of the container library or of the file system is one        *)
(* fallible primitive.  A call of new/write/close runs its primitives in   *)
(* program order; the `?` operator makes the first failing primitive end    *)
(* the call with an error.  A primitive fails either because the           *)
(* environment makes it fail (the failAt-th primitive of the call) or      *)
(* because the container refuses it (a name that already exists, a name    *)
(* that does not exist).                                                   *)
(***************************************************************************)
EXTENDS Integers, Sequences, FiniteSets, TLC

VARIABLES
    live,           \* TRUE iff new returned Ok(writer): a HarmonicWriter exists
    harmonic_path,  \* writer.rs:16
    current_path,   \* writer.rs:17
    current_file,   \* writer.rs:18, the handle: the path the open file was created at
    current_run,    \* writer.rs:19
    current_event,  \* writer.rs:20
    harmonic_size,  \* writer.rs:21
    disk,           \* the file system: path -> container file
    stored,         \* history: path -> the events whose encoding completed in that file
    written,        \* history: the events passed to the write calls that returned Ok
    op,             \* the last call: "new", "write" or "close"
    result,         \* what the last call returned: "Ok" or "Err"
    calls,          \* the primitives the last call invoked, in order
    failedAt,       \* the position in calls of the first primitive that failed, 0 if none
    errs,           \* number of calls that returned an error so far
    nwrites,        \* number of write calls so far
    ncloses         \* number of close calls so far

vars == <<live, harmonic_path, current_path, current_file, current_run,
          current_event, harmonic_size, disk, stored, written, op, result,
          calls, failedAt, errs, nwrites, ncloses>>

(***************************************************************************)
(* Bounds of the model.                                                    *)
(***************************************************************************)
\* Runs are explored up to MaxWrites write calls and MaxCloses close calls.
\* The environment fails a primitive in at most MaxFailures calls, and a run
\* in which a call has failed is explored up to MaxFaultCalls calls after new.
MaxWrites == 3
MaxCloses == 2
MaxFaultCalls == 2
MaxFailures == 1

\* The size budgets tried: 1 forces a rollover after every event, 5 lets a
\* file take up to three events.
HarmonicSizes == {1, 5}

(***************************************************************************)
(* MergerEvent (consumed read-only).  Option<T> is a sequence of length    *)
(* at most one.                                                            *)
(***************************************************************************)
None == <<>>
Some(x) == <<x>>

GetPayload == [id |-> 5, timestamp |-> 10, timestamp_other |-> 11, traces |-> <<1, 2, 3>>]
FribPayload == [event |-> 7, timestamp |-> 20, traces |-> <<4>>, coincidence |-> <<6>>]

Event(run_number, event, get, frib) ==
    [run_number |-> run_number, event |-> event, get |-> get, frib |-> frib]

\* The events a caller passes to write: every combination of payloads, and
\* two events without payload that differ in their provenance.
MergerEvents ==
    {Event(-1, 10, None, None), Event(3, 11, None, None),
     Event(3, 12, Some(GetPayload), None), Event(-1, 13, None, Some(FribPayload)),
     Event(4, 14, Some(GetPayload), Some(FribPayload))}

(***************************************************************************)
(* External collaborators.                                                 *)
(***************************************************************************)
\* reader::construct_run_path: one distinct path per run index.
ConstructRunPath(base, run) == <<base, "run", run>>

\* format!("event_{}", k)
EventGroupName(k) == <<"event", k>>

\* format!("{}:{}", CARGO_PKG_NAME, CARGO_PKG_VERSION)
HarmonizerVersion == "harmonizer:version"

EmptyMap == [x \in {} |-> <<>>]

\* What File::create leaves at a path: a container with only its root group.
FreshFile == [events |-> FALSE, attrs |-> EmptyMap, groups |-> EmptyMap, size |-> 1]

\* Bytes the file grows by when an object is added to it.
GroupBytes == 1
DatasetBytes(data) == 1 + Len(data)

(***************************************************************************)
(* The state of one running call: the writer's fields (w), the disk, the   *)
(* history, the primitives invoked so far, the first of them that failed   *)
(* (failedAt, 0 for none), whether the call is still running (ok) and      *)
(* which primitive the environment fails (failAt, 0 for none).             *)
(***************************************************************************)
\* The result of write_scalar discarded instead of propagated with `?`.
DoIgnoreScalar(m, prim, accepted, effect) ==
    IF ~m.ok THEN m
    ELSE IF Len(m.calls) + 1 = m.failAt \/ ~accepted
         THEN [m EXCEPT !.calls = Append(@, prim),
                        !.ok = prim[1] = "write_scalar",
                        !.failedAt = IF @ = 0 THEN Len(m.calls) + 1 ELSE @]
         ELSE [effect EXCEPT !.calls = Append(@, prim)]

Do(m, prim, accepted, effect) ==
    IF ~m.ok THEN m
    ELSE IF Len(m.calls) + 1 = m.failAt \/ ~accepted
         THEN [m EXCEPT !.calls = Append(@, prim),
                        !.ok = FALSE,
                        !.failedAt = IF @ = 0 THEN Len(m.calls) + 1 ELSE @]
         ELSE [effect EXCEPT !.calls = Append(@, prim)]

Handle(m) == m.disk[m.w.current_file]

PutItem(m, k, item, val) ==
    [m EXCEPT !.disk[m.w.current_file].groups[EventGroupName(k)] = (item :> val) @@ @]

PutAttr(m, name, val) ==
    [m EXCEPT !.disk[m.w.current_file].attrs = (name :> val) @@ @]

Grow(m, bytes) ==
    [m EXCEPT !.disk[m.w.current_file].size = @ + bytes]

\* group.new_attr::<T>().create(name)?.write_scalar(&v)?
EventAttr(m, k, item, v) ==
    LET a == Do(m, <<"create", item>>, TRUE, PutItem(m, k, item, <<>>))
    IN  Do(a, <<"write_scalar", item>>, TRUE, PutItem(a, k, item, <<v>>))

\* group.new_dataset_builder().with_data(&data).create(name)?
EventDataset(m, k, item, data) ==
    Do(m, <<"create", item>>, TRUE,
       Grow(PutItem(m, k, item, <<data>>), DatasetBytes(data)))

\* The group of the event opened when it already exists, created otherwise.
CreateEventGroupOrOpen(m, k) ==
    LET a == Do(m, <<"group", "events">>, Handle(m).events, m)
    IN  Do(a, <<"create_group", EventGroupName(k)>>, TRUE,
           IF EventGroupName(k) \in DOMAIN Handle(a).groups THEN a
           ELSE Grow([a EXCEPT !.disk[a.w.current_file].groups =
                                   (EventGroupName(k) :> EmptyMap) @@ @], GroupBytes))

\* writer.rs:47-50
CreateEventGroup(m, k) ==
    LET a == Do(m, <<"group", "events">>, Handle(m).events, m)
    IN  Do(a, <<"create_group", EventGroupName(k)>>,
           EventGroupName(k) \notin DOMAIN Handle(a).groups,
           Grow([a EXCEPT !.disk[a.w.current_file].groups =
                              (EventGroupName(k) :> EmptyMap) @@ @], GroupBytes))

\* Provenance taken from the writer's own run index instead of the event's.
WriteProvenanceOfWriter(m, k, event) ==
    EventAttr(EventAttr(m, k, "orig_run", m.w.current_run),
              k, "orig_event", event.event)

\* writer.rs:52-60
WriteProvenance(m, k, event) ==
    EventAttr(EventAttr(m, k, "orig_run", event.run_number),
              k, "orig_event", event.event)

\* writer.rs:62-79
WriteGet(m, k, event) ==
    IF event.get = None THEN m
    ELSE LET get == event.get[1]
             a == EventDataset(m, k, "get_traces", get.traces)
             b == EventAttr(a, k, "get_traces@id", get.id)
             c == EventAttr(b, k, "get_traces@timestamp", get.timestamp)
         IN  EventAttr(c, k, "get_traces@timestamp_other", get.timestamp_other)

\* The FRIB payload written only when there is no GET payload (else if).
WriteFribElse(m, k, event) ==
    IF event.frib = None \/ event.get # None THEN m
    ELSE LET frib == event.frib[1]
             a == Do(m, <<"create_group", "frib_physics">>, TRUE,
                     Grow(PutItem(m, k, "frib_physics", <<>>), GroupBytes))
             b == EventAttr(a, k, "frib_physics@event", frib.event)
             c == EventAttr(b, k, "frib_physics@timestamp", frib.timestamp)
             d == EventDataset(c, k, "frib_physics/1903", frib.traces)
         IN  EventDataset(d, k, "frib_physics/977", frib.coincidence)

\* writer.rs:81-99
WriteFrib(m, k, event) ==
    IF event.frib = None THEN m
    ELSE LET frib == event.frib[1]
             a == Do(m, <<"create_group", "frib_physics">>, TRUE,
                     Grow(PutItem(m, k, "frib_physics", <<>>), GroupBytes))
             b == EventAttr(a, k, "frib_physics@event", frib.event)
             c == EventAttr(b, k, "frib_physics@timestamp", frib.timestamp)
             d == EventDataset(c, k, "frib_physics/1903", frib.traces)
         IN  EventDataset(d, k, "frib_physics/977", frib.coincidence)

\* The counter incremented before the event is encoded, so also when the
\* encoding fails.
CountEventAlways(m, event) ==
    IF ~m.ok THEN [m EXCEPT !.w.current_event = @ + 1]
    ELSE [m EXCEPT !.w.current_event = @ + 1,
                   !.stored[m.w.current_file] = Append(@, event)]

\* writer.rs:101
CountEvent(m, event) ==
    IF ~m.ok THEN m
    ELSE [m EXCEPT !.w.current_event = @ + 1,
                   !.stored[m.w.current_file] = Append(@, event)]

\* min_event continuing the count of the events of the earlier files.
InitFileContinuing(m) ==
    LET before == Cardinality(UNION {{<<p, i>> : i \in 1 .. Len(m.stored[p])} :
                                        p \in DOMAIN m.stored})
        a == Do(m, <<"create_group", "events">>, ~Handle(m).events,
                Grow([m EXCEPT !.disk[m.w.current_file].events = TRUE], GroupBytes))
        b == Do(a, <<"create", "min_event">>, TRUE, PutAttr(a, "min_event", <<>>))
        c == Do(b, <<"write_scalar", "min_event">>, TRUE,
                PutAttr(b, "min_event", <<before>>))
        d == Do(c, <<"create", "max_event">>, TRUE, PutAttr(c, "max_event", <<>>))
        e == Do(d, <<"create", "version">>, TRUE, PutAttr(d, "version", <<>>))
    IN  Do(e, <<"write_scalar", "version">>, TRUE,
           PutAttr(e, "version", <<HarmonizerVersion>>))

\* writer.rs:122-137
InitFile(m) ==
    LET a == Do(m, <<"create_group", "events">>, ~Handle(m).events,
                Grow([m EXCEPT !.disk[m.w.current_file].events = TRUE], GroupBytes))
        b == Do(a, <<"create", "min_event">>, TRUE, PutAttr(a, "min_event", <<>>))
        c == Do(b, <<"write_scalar", "min_event">>, TRUE, PutAttr(b, "min_event", <<0>>))
        d == Do(c, <<"create", "max_event">>, TRUE, PutAttr(c, "max_event", <<>>))
        e == Do(d, <<"create", "version">>, TRUE, PutAttr(d, "version", <<>>))
    IN  Do(e, <<"write_scalar", "version">>, TRUE,
           PutAttr(e, "version", <<HarmonizerVersion>>))

\* writer.rs:141-148
FinishFile(m) ==
    LET a == Do(m, <<"group", "events">>, Handle(m).events, m)
        b == Do(a, <<"attr", "max_event">>, "max_event" \in DOMAIN Handle(a).attrs, a)
    IN  Do(b, <<"write_scalar", "max_event">>, TRUE,
           PutAttr(b, "max_event", <<b.w.current_event>>))

\* File::create(&self.current_path)? and the assignment of the handle
\* (writer.rs:29, writer.rs:108)
CreateFile(m) ==
    Do(m, <<"File::create">>, TRUE,
       [m EXCEPT !.disk = (m.w.current_path :> FreshFile) @@ @,
                 !.stored = (m.w.current_path :> <<>>) @@ @,
                 !.w.current_file = m.w.current_path])

\* A rollover that forgets to advance the run index, so that the next file
\* is created at the path of the old one.
NextRunSamePath(m) ==
    IF ~m.ok THEN m
    ELSE [m EXCEPT !.w.current_event = 0]

\* A rollover that carries the event counter over to the next file.
NextRunKeepCounter(m) ==
    IF ~m.ok THEN m
    ELSE [m EXCEPT !.w.current_run = @ + 1,
                   !.w.current_path =
                       ConstructRunPath(m.w.harmonic_path, m.w.current_run + 1)]

\* writer.rs:105-107
NextRun(m) ==
    IF ~m.ok THEN m
    ELSE [m EXCEPT !.w.current_event = 0,
                   !.w.current_run = @ + 1,
                   !.w.current_path =
                       ConstructRunPath(m.w.harmonic_path, m.w.current_run + 1)]

\* A rollover that resets the counter only after the next file has been
\* created and initialized.
RolloverResetLast(m) ==
    LET a == InitFile(CreateFile(NextRunKeepCounter(FinishFile(m))))
    IN  IF ~a.ok THEN a ELSE [a EXCEPT !.w.current_event = 0]

\* A rollover that resets the counter before it finalizes the old file.
RolloverResetFirst(m) == InitFile(CreateFile(FinishFile(NextRun(m))))

\* writer.rs:104-109
Rollover(m) == InitFile(CreateFile(NextRun(FinishFile(m))))

\* A size check with > in place of >=.
OverBudgetStrict(m) == m.disk[m.w.current_path].size > m.w.harmonic_size

\* self.current_path.metadata()?.len() >= self.harmonic_size  (writer.rs:103)
OverBudget(m) == m.disk[m.w.current_path].size >= m.w.harmonic_size

\* writer.rs:103-110
CheckSize(m) ==
    LET a == Do(m, <<"metadata">>, m.w.current_path \in DOMAIN m.disk, m)
    IN  IF a.ok /\ OverBudget(a) THEN Rollover(a) ELSE a

\* The counter incremented on entry, before the event is encoded under the
\* old count.
WriteCallCountFirst(m, event) ==
    LET k == m.w.current_event
        a == CreateEventGroup([m EXCEPT !.w.current_event = @ + 1], k)
        b == WriteProvenance(a, k, event)
        c == WriteGet(b, k, event)
        d == WriteFrib(c, k, event)
    IN  CheckSize(IF ~d.ok THEN d
                  ELSE [d EXCEPT !.stored[m.w.current_file] = Append(@, event)])

\* writer.rs:46-113
WriteCall(m, event) ==
    LET k == m.w.current_event
        a == CreateEventGroup(m, k)
        b == WriteProvenance(a, k, event)
        c == WriteGet(b, k, event)
        d == WriteFrib(c, k, event)
    IN  CheckSize(CountEvent(d, event))

\* A close that resets the event counter once the file is finalized.
CloseCallReset(m) ==
    LET a == FinishFile(m)
    IN  IF ~a.ok THEN a ELSE [a EXCEPT !.w.current_event = 0]

\* writer.rs:117-119
CloseCall(m) == FinishFile(m)

\* writer.rs:26-43
NewCall(m) == InitFile(CreateFile(m))

(***************************************************************************)
(* The state machine.                                                      *)
(***************************************************************************)
Writer ==
    [harmonic_path |-> harmonic_path, current_path |-> current_path,
     current_file |-> current_file, current_run |-> current_run,
     current_event |-> current_event, harmonic_size |-> harmonic_size]

Running(failAt) ==
    [w |-> Writer, disk |-> disk, stored |-> stored, calls |-> <<>>,
     failedAt |-> 0, ok |-> TRUE, failAt |-> failAt]

\* The primitives the environment may fail in a call that invokes n of them
\* when none is failed (0: none).
FailPoints(n, failed, done) ==
    IF failed < MaxFailures /\ done < MaxFaultCalls THEN 0 .. n ELSE {0}

\* Whether one more call is explored.
Explored == errs > 0 => nwrites + ncloses < MaxFaultCalls

Returns(m, name) ==
    /\ current_path' = m.w.current_path
    /\ current_file' = m.w.current_file
    /\ current_run' = m.w.current_run
    /\ current_event' = m.w.current_event
    /\ disk' = m.disk
    /\ stored' = m.stored
    /\ calls' = m.calls
    /\ failedAt' = m.failedAt
    /\ op' = name
    /\ result' = IF m.ok THEN "Ok" ELSE "Err"
    /\ errs' = IF m.ok THEN errs ELSE errs + 1
    /\ UNCHANGED <<harmonic_path, harmonic_size>>

\* The state after HarmonicWriter::new(harmonic_path, harmonic_size).
Fresh(size, failAt) ==
    [w |-> [harmonic_path |-> "harmonic",
            current_path |-> ConstructRunPath("harmonic", 0),
            current_file |-> ConstructRunPath("harmonic", 0),
            current_run |-> 0, current_event |-> 0, harmonic_size |-> size],
     disk |-> EmptyMap, stored |-> EmptyMap, calls |-> <<>>,
     failedAt |-> 0, ok |-> TRUE, failAt |-> failAt]

Init ==
    \E size \in HarmonicSizes :
      \E failAt \in FailPoints(Len(NewCall(Fresh(size, 0)).calls), 0, 0) :
        LET m == NewCall(Fresh(size, failAt))
        IN  /\ live = m.ok
            /\ harmonic_path = m.w.harmonic_path
            /\ harmonic_size = m.w.harmonic_size
            /\ current_path = m.w.current_path
            /\ current_file = m.w.current_file
            /\ current_run = m.w.current_run
            /\ current_event = m.w.current_event
            /\ disk = m.disk
            /\ stored = m.stored
            /\ written = <<>>
            /\ op = "new"
            /\ result = IF m.ok THEN "Ok" ELSE "Err"
            /\ calls = m.calls
            /\ failedAt = m.failedAt
            /\ errs = IF m.ok THEN 0 ELSE 1
            /\ nwrites = 0
            /\ ncloses = 0

Write ==
    /\ live
    /\ nwrites < MaxWrites
    /\ Explored
    /\ \E event \in MergerEvents :
         \E failAt \in FailPoints(Len(WriteCall(Running(0), event).calls), errs, nwrites + ncloses) :
           LET m == WriteCall(Running(failAt), event)
           IN  /\ Returns(m, "write")
               /\ written' = IF m.ok THEN Append(written, event) ELSE written
    /\ nwrites' = nwrites + 1
    /\ UNCHANGED <<live, ncloses>>

Close ==
    /\ live
    /\ ncloses < MaxCloses
    /\ Explored
    /\ \E failAt \in FailPoints(Len(CloseCall(Running(0)).calls), errs, nwrites + ncloses) :
           LET m == CloseCall(Running(failAt))
           IN  /\ Returns(m, "close")
    /\ ncloses' = ncloses + 1
    /\ UNCHANGED <<live, written, nwrites>>

Next == Write \/ Close

Spec == Init /\ [][Next]_vars

(***************************************************************************)
(* Reading the output files back.                                          *)
(***************************************************************************)
Range(seq) == {seq[i] : i \in 1 .. Len(seq)}

RunOf(path) == path[3]

Item(group, name) == IF name \in DOMAIN group THEN group[name] ELSE <<>>

\* The file's max_event has been written by finish_file.
Finalized(path) == Item(disk[path].attrs, "max_event") # <<>>

MaxEvent(path) == disk[path].attrs["max_event"][1]

\* init_file ran to its end on the file.
Initialized(path) == Item(disk[path].attrs, "version") = <<HarmonizerVersion>>

EventGroups(path) == DOMAIN disk[path].groups

EventNames(n) == {EventGroupName(k) : k \in 0 .. n - 1}

RECURSIVE SumMaxEvent(_)
SumMaxEvent(paths) ==
    IF paths = {} THEN 0
    ELSE LET p == CHOOSE q \in paths : TRUE
         IN  MaxEvent(p) + SumMaxEvent(paths \ {p})

\* The provenance attributes of the groups event_k, event_k+1, ... of a file.
RECURSIVE ReadFile(_, _)
ReadFile(path, k) ==
    IF EventGroupName(k) \notin EventGroups(path) THEN <<>>
    ELSE LET g == disk[path].groups[EventGroupName(k)]
         IN  <<[orig_run |-> Item(g, "orig_run"), orig_event |-> Item(g, "orig_event")]>>
             \o ReadFile(path, k + 1)

\* The files in increasing run index, each read from event_0 on.
RECURSIVE ReadBack(_)
ReadBack(paths) ==
    IF paths = {} THEN <<>>
    ELSE LET p == CHOOSE q \in paths : \A r \in paths : RunOf(q) <= RunOf(r)
         IN  ReadFile(p, 0) \o ReadBack(paths \ {p})

Provenance(events) ==
    [i \in 1 .. Len(events) |->
        [orig_run |-> <<events[i].run_number>>, orig_event |-> <<events[i].event>>]]

\* The group the layout of the format prescribes for an event.
ExpectedGroup(event) ==
    LET prov == ("orig_run" :> <<event.run_number>>) @@ ("orig_event" :> <<event.event>>)
        get == IF event.get = None THEN EmptyMap
               ELSE ("get_traces" :> <<event.get[1].traces>>)
                    @@ ("get_traces@id" :> <<event.get[1].id>>)
                    @@ ("get_traces@timestamp" :> <<event.get[1].timestamp>>)
                    @@ ("get_traces@timestamp_other" :> <<event.get[1].timestamp_other>>)
        frib == IF event.frib = None THEN EmptyMap
                ELSE ("frib_physics" :> <<>>)
                     @@ ("frib_physics@event" :> <<event.frib[1].event>>)
                     @@ ("frib_physics@timestamp" :> <<event.frib[1].timestamp>>)
                     @@ ("frib_physics/1903" :> <<event.frib[1].traces>>)
                     @@ ("frib_physics/977" :> <<event.frib[1].coincidence>>)
    IN  prov @@ get @@ frib

WriteStep == nwrites' = nwrites + 1
CloseStep == ncloses' = ncloses + 1

\* The call that returned res after invoking the primitives of log invoked
\* prim and prim did not fail: only the last primitive of a call that
\* returned an error has failed.
Succeeded(log, res, prim) ==
    \E i \in 1 .. Len(log) : log[i] = prim /\ (i < Len(log) \/ res = "Ok")

\* The objects write creates in the group of an event (writer.rs:52-99).
EventItems ==
    {"orig_run", "orig_event", "get_traces", "get_traces@id",
     "get_traces@timestamp", "get_traces@timestamp_other",
     "frib_physics@event", "frib_physics@timestamp",
     "frib_physics/1903", "frib_physics/977"}

\* The primitives that encode the event k (writer.rs:47-99), but for the
\* opening of the events group, which finish_file invokes too.
EncodingPrimitives(k) ==
    {<<"create_group", EventGroupName(k)>>, <<"create_group", "frib_physics">>}
    \cup {<<c, item>> : c \in {"create", "write_scalar"}, item \in EventItems}

\* The step is a write that failed while encoding the event: at the opening
\* of the events group, the first primitive of write, or at a later
\* primitive of the encoding.
FailedEncoding ==
    /\ WriteStep
    /\ result' = "Err"
    /\ failedAt' = 1 \/ calls'[failedAt'] \in EncodingPrimitives(current_event)

\* The open file already holds a group with the name the next write will
\* give to create_group (writer.rs:50).
Blocked ==
    /\ live
    /\ EventGroupName(current_event) \in DOMAIN disk[current_file].groups

\* Every invocation of the primitive a precedes every invocation of b.
Before(log, a, b) ==
    \A i, j \in 1 .. Len(log) : (log[i] = a /\ log[j] = b) => i < j

\* The step is a write whose size query found the file over budget
\* (writer.rs:103).
RolloverBegun ==
    /\ WriteStep
    /\ Succeeded(calls', result', <<"metadata">>)
    /\ disk'[current_path].size >= harmonic_size

\* The step is a write whose size query found the file over budget and whose
\* rollover finalized the file (writer.rs:103-104).
RolledOver ==
    /\ RolloverBegun
    /\ Succeeded(calls', result', <<"write_scalar", "max_event">>)

(***************************************************************************)
(* C1.  After N write calls that all succeed and a successful close, the   *)
(* max_event attributes of the output files, all finalized, add up to N,   *)
(* and each file holds exactly the groups event_k for k in [0, max_event). *)
(***************************************************************************)
C1_EventsAccounted ==
    (errs = 0 /\ op = "close") =>
        /\ \A p \in DOMAIN disk :
               /\ Finalized(p)
               /\ EventGroups(p) = EventNames(MaxEvent(p))
        /\ SumMaxEvent(DOMAIN disk) = nwrites

C1_Witness ==
    /\ errs = 0 /\ op = "close" /\ nwrites = 3
    /\ \E p, q \in DOMAIN disk : p # q /\ MaxEvent(p) = 2 /\ MaxEvent(q) = 1

(***************************************************************************)
(* C2 as stated.  Every event written to a file finds the file, a freshly  *)
(* initialized one included, with a size below harmonic_size.              *)
(***************************************************************************)
C2_SizeBelowBudgetBeforeEveryEvent ==
    [][\A p \in DOMAIN stored :
           stored'[p] # stored[p] => disk[p].size < harmonic_size]_vars

(***************************************************************************)
(* C2 as amended.  The size is checked after an event is written, never    *)
(* before.  A write that returns Ok leaves the file it wrote to either     *)
(* below harmonic_size and current, or at or above harmonic_size,          *)
(* finalized, and replaced by a new empty file whose run index is exactly  *)
(* one greater.  No event is written to a file of an earlier run index,    *)
(* and while no call has failed every event but the first of a file finds  *)
(* the file below harmonic_size.                                           *)
(***************************************************************************)
C2_RolloverOnSizeCheck ==
    /\ [][(WriteStep /\ result' = "Ok") =>
             IF disk'[current_file].size < harmonic_size
             THEN current_file' = current_file /\ current_run' = current_run
             ELSE /\ current_run' = current_run + 1
                  /\ current_file' = ConstructRunPath(harmonic_path, current_run + 1)
                  /\ current_file' \notin DOMAIN disk
                  /\ stored'[current_file'] = <<>>
                  /\ disk'[current_file].attrs["max_event"] =
                         <<Len(stored'[current_file])>>]_vars
    /\ [][\A p \in DOMAIN stored :
             stored'[p] # stored[p] =>
                 /\ RunOf(p) = current_run
                 /\ (errs = 0 /\ stored[p] # <<>>) => disk[p].size < harmonic_size]_vars

C2_Witness ==
    /\ op = "write" /\ result = "Ok" /\ harmonic_size = 5 /\ current_run = 1
    /\ Len(stored[ConstructRunPath(harmonic_path, 0)]) = 3
    /\ stored[current_file] = <<>>

(***************************************************************************)
(* C3 as stated.  With harmonic_size = 1, new, three successful writes of  *)
(* events without payload and close leave 3 output files, each with        *)
(* max_event = 1 and one group event_0 holding only orig_run and           *)
(* orig_event.                                                             *)
(***************************************************************************)
C3_Scenario ==
    /\ harmonic_size = 1 /\ errs = 0 /\ nwrites = 3 /\ ncloses = 1 /\ op = "close"
    /\ \A i \in 1 .. Len(written) : written[i].get = None /\ written[i].frib = None

C3_ThreeFiles ==
    C3_Scenario =>
        /\ Cardinality(DOMAIN disk) = 3
        /\ \A p \in DOMAIN disk :
               /\ disk[p].attrs["max_event"] = <<1>>
               /\ EventGroups(p) = {EventGroupName(0)}
               /\ DOMAIN disk[p].groups[EventGroupName(0)] = {"orig_run", "orig_event"}

(***************************************************************************)
(* C3 as amended.  The scenario leaves 4 output files: those of the runs   *)
(* 0, 1 and 2 each have max_event = 1 and one group event_0 holding only   *)
(* orig_run and orig_event, and the file of run 3, created by the third    *)
(* rollover, has max_event = 0 and no event group.                         *)
(***************************************************************************)
C3_ThreeFilesAndAnEmptyOne ==
    C3_Scenario =>
        /\ DOMAIN disk = {ConstructRunPath(harmonic_path, r) : r \in 0 .. 3}
        /\ \A r \in 0 .. 2 :
               LET p == ConstructRunPath(harmonic_path, r)
               IN  /\ disk[p].attrs["max_event"] = <<1>>
                   /\ EventGroups(p) = {EventGroupName(0)}
                   /\ disk[p].groups[EventGroupName(0)] =
                          ("orig_run" :> <<written[r + 1].run_number>>)
                          @@ ("orig_event" :> <<written[r + 1].event>>)
        /\ LET last == ConstructRunPath(harmonic_path, 3)
           IN  disk[last].attrs["max_event"] = <<0>> /\ EventGroups(last) = {}

C3_Witness == C3_Scenario /\ written[1] # written[2]

(***************************************************************************)
(* C4.  A successful close leaves, in the max_event attribute of the file  *)
(* behind current_file, the number of events written to that file since    *)
(* it was created.                                                         *)
(***************************************************************************)
C4_CloseWritesEventCount ==
    (op = "close" /\ result = "Ok") =>
        disk[current_file].attrs["max_event"] = <<Len(stored[current_file])>>

(***************************************************************************)
(* C5.  Every finalized file, whatever calls returned an error, has a      *)
(* max_event equal to the number of event_k groups it holds.               *)
(***************************************************************************)
C5_MaxEventCountsGroups ==
    \A p \in DOMAIN disk :
        Finalized(p) => MaxEvent(p) = Cardinality(EventGroups(p))

(***************************************************************************)
(* C6 as stated.  Reading the files in increasing run index, and the       *)
(* groups of each from event_0 on, yields the events passed to the write   *)
(* calls that returned Ok, in call order.                                  *)
(***************************************************************************)
C6_ReadBackIsWritten == ReadBack(DOMAIN disk) = Provenance(written)

(***************************************************************************)
(* C6 as amended.  The k-th event whose encoding completed in a file is    *)
(* the file's group event_k, with orig_run and orig_event equal to the     *)
(* event's run_number and event; the file holds at most one further        *)
(* group, left by a write that failed while encoding.  While no call has   *)
(* failed, reading the files back yields exactly the events passed to the  *)
(* write calls, in call order.  A write that fails at its size query or    *)
(* during the rollover returns an error and leaves its event in the file.  *)
(***************************************************************************)
C6_ReadBackIsEncoded ==
    /\ \A p \in DOMAIN disk :
           /\ EventNames(Len(stored[p])) \subseteq EventGroups(p)
           /\ EventGroups(p) \subseteq EventNames(Len(stored[p]) + 1)
           /\ SubSeq(ReadFile(p, 0), 1, Len(stored[p])) = Provenance(stored[p])
    /\ errs = 0 => ReadBack(DOMAIN disk) = Provenance(written)

C6_Witness ==
    /\ errs = 0 /\ Len(written) = 3 /\ current_run = 1
    /\ written[1] # written[2] /\ written[2] # written[3]
    /\ Len(stored[ConstructRunPath(harmonic_path, 0)]) = 2
    /\ Len(stored[ConstructRunPath(harmonic_path, 1)]) = 1

(***************************************************************************)
(* C7.  The group of every event whose encoding completed holds the        *)
(* dataset get_traces with the attributes id, timestamp, timestamp_other   *)
(* iff the event has a GET payload, the group frib_physics with the        *)
(* attributes event, timestamp and the datasets 1903 and 977 iff it has a  *)
(* FRIB payload, and besides these only orig_run and orig_event.           *)
(***************************************************************************)
C7_PayloadsPresentIffGiven ==
    \A p \in DOMAIN disk : \A k \in 1 .. Len(stored[p]) :
        /\ EventGroupName(k - 1) \in EventGroups(p)
        /\ disk[p].groups[EventGroupName(k - 1)] = ExpectedGroup(stored[p][k])

C7_Witness ==
    /\ errs = 0
    /\ \E p, q \in DOMAIN disk :
           /\ Len(stored[p]) = 2 /\ Len(stored[q]) = 1
           /\ stored[p][1].get = None /\ stored[p][1].frib = None
           /\ stored[p][2].get # None /\ stored[p][2].frib # None
           /\ stored[q][1].get = None /\ stored[q][1].frib # None
           /\ DOMAIN disk[p].groups[EventGroupName(0)] = {"orig_run", "orig_event"}
           /\ "get_traces" \in DOMAIN disk[p].groups[EventGroupName(1)]
           /\ "frib_physics" \in DOMAIN disk[p].groups[EventGroupName(1)]
           /\ "get_traces" \notin DOMAIN disk[q].groups[EventGroupName(0)]

(***************************************************************************)
(* C8.  Every file the writer has initialized has min_event = 0, whatever  *)
(* the number of events in earlier files, and no operation changes a       *)
(* min_event once written.                                                 *)
(***************************************************************************)
C8_MinEventZero ==
    /\ [](\A p \in DOMAIN disk :
             /\ Initialized(p) => disk[p].attrs["min_event"] = <<0>>
             /\ Item(disk[p].attrs, "min_event") \in {<<>>, <<0>>})
    /\ [][\A p \in DOMAIN disk :
             Item(disk[p].attrs, "min_event") = <<0>> =>
                 disk'[p].attrs["min_event"] = <<0>>]_vars

C8_Witness ==
    /\ current_run = 2 /\ op = "close" /\ result = "Ok"
    /\ Len(stored[ConstructRunPath(harmonic_path, 0)]) = 1
    /\ \A r \in 0 .. 2 : Initialized(ConstructRunPath(harmonic_path, r))

(***************************************************************************)
(* C9.  Between calls the fields of the writer are consistent: the handle  *)
(* current_file is that of the file at current_path, the file was created  *)
(* for the run index current_run, and it holds exactly current_event       *)
(* written events.                                                         *)
(***************************************************************************)
C9_FieldsConsistent ==
    live =>
        /\ current_path = ConstructRunPath(harmonic_path, current_run)
        /\ current_path \in DOMAIN disk
        /\ current_file = current_path
        /\ Len(stored[current_file]) = current_event

(***************************************************************************)
(* C10 as stated.  A write that returns Ok without rollover increments     *)
(* current_event by one, a write that returns Ok with a rollover leaves it *)
(* 0, and a write that returns an error does not increment it.             *)
(***************************************************************************)
C10_CounterUntouchedOnError ==
    [][WriteStep =>
          /\ (result' = "Ok" /\ current_run' = current_run) =>
                 current_event' = current_event + 1
          /\ (result' = "Ok" /\ current_run' # current_run) => current_event' = 0
          /\ result' = "Err" => current_event' = current_event]_vars

(***************************************************************************)
(* C10 as amended.  A write that returns Ok without rollover increments    *)
(* current_event by one and one that returns Ok with a rollover leaves it  *)
(* 0.  A write that returns an error leaves it unchanged only if it failed *)
(* while encoding the event; if it failed at the size query or at the      *)
(* finalization the counter has been incremented, and if it failed at the  *)
(* creation or the initialization of the next file the counter has been    *)
(* reset to 0.  close never changes it.                                    *)
(***************************************************************************)
C10_CounterFollowsProgress ==
    [][/\ WriteStep =>
             LET sized == <<"metadata">> \in Range(calls')
                 created == <<"File::create">> \in Range(calls')
             IN  /\ (result' = "Ok" /\ current_run' = current_run) =>
                        current_event' = current_event + 1
                 /\ (result' = "Ok" /\ current_run' # current_run) =>
                        current_event' = 0 /\ created
                 /\ (result' = "Err" /\ ~sized) => current_event' = current_event
                 /\ (result' = "Err" /\ sized /\ ~created) =>
                        current_event' = current_event + 1
                 /\ (result' = "Err" /\ created) => current_event' = 0
       /\ CloseStep => current_event' = current_event]_vars

C10_Witness ==
    /\ op = "write" /\ result = "Err" /\ current_event = 2
    /\ calls[Len(calls)] = <<"metadata">>

(***************************************************************************)
(* C11.  current_run starts at 0 and never decreases; it increases, by     *)
(* exactly one, in the steps that roll over (a write whose size query      *)
(* finds the file over budget and whose finalization succeeds) and in no   *)
(* other step.  The files on disk are those of the run indices 0, 1, 2,    *)
(* ... with no index skipped, a file is only ever created for the run      *)
(* index current_run, and no path is used for a file creation twice.       *)
(***************************************************************************)
C11_RunIndexCounts ==
    /\ current_run = 0
    /\ [][/\ current_run' \in {current_run, current_run + 1}
          /\ current_run' = current_run + 1 <=> RolledOver
          /\ <<"File::create">> \in Range(calls') =>
                 /\ RolledOver
                 /\ current_path' = ConstructRunPath(harmonic_path, current_run')
                 /\ current_path' \notin DOMAIN disk
          /\ DOMAIN disk' \subseteq DOMAIN disk \cup {current_path'}]_vars
    /\ [](/\ DOMAIN disk = {ConstructRunPath(harmonic_path, r) :
                               r \in 0 .. Cardinality(DOMAIN disk) - 1}
          /\ Cardinality(DOMAIN disk) \in {current_run, current_run + 1})

C11_Witness ==
    /\ op = "write" /\ result = "Ok" /\ current_run = 2 /\ harmonic_size = 5
    /\ DOMAIN disk = {ConstructRunPath(harmonic_path, r) : r \in 0 .. 2}
    /\ <<"File::create">> \in Range(calls)

(***************************************************************************)
(* C12.  A primitive that fails inside new, write or close ends the call:  *)
(* the call returns an error, the failing primitive is the last one the    *)
(* call invoked (nothing is invoked after it and it is not invoked again), *)
(* and no call returns Ok after one of its primitives has failed.          *)
(***************************************************************************)
C12_FailureEndsCall ==
    /\ failedAt # 0 => result = "Err" /\ failedAt = Len(calls)
    /\ result = "Err" => failedAt # 0
    /\ result = "Ok" => failedAt = 0

C12_Witness ==
    /\ op = "write" /\ result = "Err" /\ failedAt = 4
    /\ calls[failedAt] = <<"write_scalar", "orig_run">>
    /\ Len(calls) = 4
    /\ DOMAIN disk[current_file].groups[EventGroupName(current_event)] = {"orig_run"}

(***************************************************************************)
(* C13 as stated.  A rollover finalizes the old file, then advances        *)
(* current_run and current_path, then creates and initializes the new      *)
(* file, and resets current_event to 0 last: a rollover that ends at a     *)
(* failed creation or initialization has not reset the counter, which      *)
(* still counts the events of the finalized file.  If the finalization     *)
(* fails no file is created and current_run, current_path and current_file *)
(* are unchanged.                                                          *)
(***************************************************************************)
C13_CounterResetLast ==
    [][RolloverBegun =>
          IF RolledOver
          THEN /\ Before(calls', <<"write_scalar", "max_event">>, <<"File::create">>)
               /\ Before(calls', <<"File::create">>, <<"create_group", "events">>)
               /\ current_run' = current_run + 1
               /\ current_path' = ConstructRunPath(harmonic_path, current_run + 1)
               /\ current_event' = IF result' = "Ok" THEN 0 ELSE current_event + 1
          ELSE /\ <<"File::create">> \notin Range(calls')
               /\ DOMAIN disk' = DOMAIN disk
               /\ UNCHANGED <<current_run, current_path, current_file>>]_vars

(***************************************************************************)
(* C13 as amended.  A rollover finalizes the old file (max_event = the     *)
(* number of its events), then resets current_event to 0, advances         *)
(* current_run and recomputes current_path, and only then creates and      *)
(* initializes the new file: a rollover that ends at a failed creation or  *)
(* initialization has already reset the counter and advanced the run index *)
(* and the path.  The old file is finalized before the new one is created, *)
(* current_file becomes the new file only once the creation succeeded, and *)
(* if the finalization fails no file is created and current_run,           *)
(* current_path and current_file are unchanged.                            *)
(***************************************************************************)
C13_CounterResetBeforeCreate ==
    [][RolloverBegun =>
          IF RolledOver
          THEN /\ <<"File::create">> \in Range(calls')
               /\ Before(calls', <<"write_scalar", "max_event">>, <<"File::create">>)
               /\ Before(calls', <<"File::create">>, <<"create_group", "events">>)
               /\ disk'[current_file].attrs["max_event"] = <<current_event + 1>>
               /\ current_event' = 0
               /\ current_run' = current_run + 1
               /\ current_path' = ConstructRunPath(harmonic_path, current_run + 1)
               /\ IF Succeeded(calls', result', <<"File::create">>)
                  THEN /\ current_file' = current_path'
                       /\ DOMAIN disk' = DOMAIN disk \cup {current_path'}
                       /\ disk'[current_path'].groups = EmptyMap
                  ELSE /\ current_file' = current_file
                       /\ DOMAIN disk' = DOMAIN disk
          ELSE /\ result' = "Err"
               /\ <<"File::create">> \notin Range(calls')
               /\ DOMAIN disk' = DOMAIN disk
               /\ current_event' = current_event + 1
               /\ UNCHANGED <<current_run, current_path, current_file>>]_vars

C13_Witness ==
    /\ op = "write" /\ result = "Err" /\ calls[failedAt] = <<"File::create">>
    /\ current_event = 0 /\ current_run = 1
    /\ current_file = ConstructRunPath(harmonic_path, 0)
    /\ disk[current_file].attrs["max_event"] = <<1>>
    /\ current_path \notin DOMAIN disk

(***************************************************************************)
(* C14.  Between calls every file of a run index below current_run is      *)
(* finalized, with max_event equal to the number of events written to it;  *)
(* only the file of the run index current_run may hold a max_event that    *)
(* is not written or out of date.                                          *)
(***************************************************************************)
C14_EarlierFilesFinalized ==
    \A p \in DOMAIN disk :
        RunOf(p) < current_run =>
            Finalized(p) /\ MaxEvent(p) = Len(stored[p])

(***************************************************************************)
(* C15.  A file that the rollover has finalized (a file of a run index     *)
(* below current_run) is never modified again: no later write or close,    *)
(* also after a failed creation or initialization of the next file,        *)
(* changes its max_event, its event groups or anything else in it.         *)
(***************************************************************************)
C15_FinalizedFilesFrozen ==
    [][\A p \in DOMAIN disk :
           RunOf(p) < current_run => disk'[p] = disk[p]]_vars

(***************************************************************************)
(* C16.  A write that fails while encoding the event leaves current_event, *)
(* current_run, current_path and current_file as they were, makes no size  *)
(* query and attempts no rollover: it finalizes nothing and creates no     *)
(* file.                                                                   *)
(***************************************************************************)
C16_EncodingFailureKeepsFields ==
    [][FailedEncoding =>
          /\ UNCHANGED <<current_event, current_run, current_path, current_file>>
          /\ <<"metadata">> \notin Range(calls')
          /\ <<"attr", "max_event">> \notin Range(calls')
          /\ <<"File::create">> \notin Range(calls')
          /\ DOMAIN disk' = DOMAIN disk
          /\ disk'[current_file].attrs = disk[current_file].attrs]_vars

C16_Witness ==
    /\ op = "write" /\ result = "Err" /\ current_event = 1 /\ current_run = 0
    /\ calls[failedAt] = <<"create", "frib_physics/977">>
    /\ "get_traces" \in DOMAIN disk[current_file].groups[EventGroupName(1)]
    /\ Len(stored[current_file]) = 1

(***************************************************************************)
(* C17.  A write that fails after it has created the group event_k leaves  *)
(* the incomplete group in the file and current_event at k.  From then on  *)
(* every write fails, at the latest at create_group, which the container   *)
(* refuses for the existing name, and changes nothing; close does not      *)
(* lift the block.  No event is ever appended to that file again.          *)
(***************************************************************************)
C17_IncompleteGroupBlocksFile ==
    [][/\ (FailedEncoding /\ failedAt' > 2) =>
              /\ Blocked'
              /\ current_event' = current_event
              /\ current_file' = current_file
       /\ (Blocked /\ WriteStep) =>
              /\ result' = "Err"
              /\ failedAt' <= 2
              /\ calls'[failedAt'] \in
                     {<<"group", "events">>,
                      <<"create_group", EventGroupName(current_event)>>}
              /\ disk' = disk
              /\ stored' = stored
              /\ Blocked'
       /\ (Blocked /\ CloseStep) => Blocked' /\ stored' = stored]_vars

C17_Witness ==
    /\ op = "write" /\ result = "Err" /\ nwrites = 2 /\ errs = 2 /\ current_run = 0
    /\ failedAt = 2
    /\ calls[failedAt] = <<"create_group", EventGroupName(0)>>
    /\ DOMAIN disk[current_file].groups[EventGroupName(0)] = {"orig_run", "orig_event"}
    /\ stored[current_file] = <<>>

(***************************************************************************)
(* C18.  Every file the rollover has finalized (a file of a run index      *)
(* below current_run) holds at least one event and carries a max_event of  *)
(* at least 1; a max_event of 0 is only found in the file of the run index *)
(* current_run, the one close finalizes.                                   *)
(***************************************************************************)
C18_RolloverFilesNotEmpty ==
    \A p \in DOMAIN disk :
        /\ RunOf(p) < current_run =>
               /\ stored[p] # <<>>
               /\ Finalized(p)
               /\ MaxEvent(p) >= 1
        /\ Item(disk[p].attrs, "max_event") = <<0>> => RunOf(p) = current_run

(***************************************************************************)
(* C19.  close changes no field of the writer; a close that returns Ok     *)
(* changes nothing on disk but the max_event of the open file, which       *)
(* becomes current_event, and a close that directly follows a successful   *)
(* close changes nothing on disk at all.  There is no closed state: after  *)
(* a close, in a run without failures, a write of any event is accepted    *)
(* and appends the event to the file that was open at the close.           *)
(***************************************************************************)
C19_CloseIsIdempotent ==
    /\ [][CloseStep =>
             /\ UNCHANGED <<live, harmonic_path, current_path, current_file,
                            current_run, current_event, harmonic_size, stored>>
             /\ result' = "Ok" =>
                    disk' = [disk EXCEPT ![current_file].attrs["max_event"] =
                                             <<current_event>>]
             /\ result' = "Err" => disk' = disk
             /\ (op = "close" /\ result = "Ok") => disk' = disk]_vars
    /\ []((live /\ op = "close" /\ errs = 0) =>
             \A event \in MergerEvents :
                 LET m == WriteCall(Running(0), event)
                 IN  /\ m.ok
                     /\ m.stored[current_file] = Append(stored[current_file], event)
                     /\ EventGroupName(current_event)
                            \in DOMAIN m.disk[current_file].groups)

C19_Witness ==
    /\ op = "write" /\ result = "Ok" /\ errs = 0 /\ nwrites = 2 /\ ncloses = 2
    /\ current_run = 0 /\ current_event = 2
    /\ disk[current_file].attrs["max_event"] = <<1>>

====
